---- MODULE Spec2Model ----
(***************************************************************************)
(* Model of the face verification pipeline of the Face-Recognition         *)
(* repository: verify/face_recognition_service.py (FaceRecognitionService: *)
(* extract_face_encoding, compare_faces, verify_face, batch_verify_faces). *)
(*                                                                         *)
(* Reals are fixed-point numbers in hundredths: a distance of 0.6 is 60,   *)
(* a confidence of 1.0 is 100.  A face encoding is a tuple of coordinates  *)
(* (the library's 128 floats are cut down to 2 or 3 coordinates); Python's *)
(* None is the empty tuple.  A message is a tuple of string fragments, in  *)
(* the order the f-strings concatenate them.                               *)
(***************************************************************************)
EXTENDS Integers, Sequences, FiniteSets, TLC

VARIABLES
    available,          \* FACE_RECOGNITION_AVAILABLE, set once at import
    pc,                 \* position of the running call
    op,                 \* the public operation that is running / has returned
    staff_photo_path,   \* verify_face: the reference image
    uploaded_photo,     \* verify_face / batch_verify_faces: the probe image
    staff_encodings,    \* batch_verify_faces: list of <<staff_id, encoding>>
    threshold,          \* the threshold the comparison reads
    staff_encoding,     \* local of verify_face
    uploaded_encoding,  \* local of verify_face / batch_verify_faces
    results,            \* local (and return value) of batch_verify_faces
    ret,                \* return value of verify_face / compare_faces
    exception,          \* the exception the call let through to its caller
    trace,              \* library calls made by the running call, in order
    logged,             \* what the running call wrote to the logger as warnings
    stream,             \* uploaded_photo as a file object: kind and read position
    encoding_model,     \* self.encoding_model, set by __init__
    workers,            \* concurrent calls on the one service instance
    request,            \* the POST request the view is handling
    response,           \* the view's response to it
    records,            \* the VerificationAttempt table
    reached,            \* how many requests got as far as verify_face
    returned            \* what successive calls on one image_file returned

(* the state of the view *)
apiVars == <<request, response, records, reached>>

(* what a single call on the service neither reads nor writes *)
restVars == <<encoding_model, workers, apiVars, returned>>

vars == <<available, pc, op, staff_photo_path, uploaded_photo, staff_encodings,
          threshold, staff_encoding, uploaded_encoding, results, ret,
          exception, trace, logged, stream, restVars>>

-----------------------------------------------------------------------------
(* Bounds of the model *)

MaxCoord == 2
MaxFaces == 2
MaxKnown == 3
MaxThreshold == 4
MaxRequests == 2

(* RECOGNITION_THRESHOLD = 0.6 *)
RECOGNITION_THRESHOLD == 60

-----------------------------------------------------------------------------
(* Values *)

None == << >>

Coords == {40 * c : c \in 0..MaxCoord}

(* every encoding of 2 or 3 coordinates: the inputs of compare_faces *)
Embeddings ==
    {<<x, y>> : x \in Coords, y \in Coords}
        \cup {<<x, y, z>> : x \in Coords, y \in Coords, z \in Coords}

(* what the encoder of one deployment produces: 2 coordinates *)
ImageEmbeddings == {<<x, x>> : x \in Coords}

(* the encodings a caller hands to batch_verify_faces: two of the          *)
(* deployment's and one of another dimensionality                          *)
KnownEmbeddings == {<<0, 0>>, <<40 * MaxCoord, 40 * MaxCoord>>, <<0, 0, 0>>}

StaffIds == {"s1", "s2"}

Thresholds == {20 * k : k \in 0..MaxThreshold}

(* An image source, described by what the libraries do with it:            *)
(*   load   - whether reading/decoding it succeeds                         *)
(*   locate - whether face_locations returns or raises                     *)
(*   faces  - how many regions face_locations returns                      *)
(*   first  - the coordinate of the encoding of the first region           *)
(*   encode - whether face_encodings returns the encodings, returns an     *)
(*            empty list, or raises                                        *)
Images ==
    {[load |-> "fail", locate |-> "ok", faces |-> 0, first |-> 0, encode |-> "ok"],
     [load |-> "ok", locate |-> "raise", faces |-> 0, first |-> 0, encode |-> "ok"],
     [load |-> "ok", locate |-> "ok", faces |-> 0, first |-> 0, encode |-> "ok"],
     [load |-> "ok", locate |-> "ok", faces |-> 1, first |-> 0, encode |-> "raise"],
     [load |-> "ok", locate |-> "ok", faces |-> 1, first |-> 0, encode |-> "empty"]}
    \cup
    {[load |-> "ok", locate |-> "ok", faces |-> n, first |-> x, encode |-> "ok"] :
        n \in 1..MaxFaces, x \in Coords}

NoImage == [load |-> "fail", locate |-> "ok", faces |-> 0, first |-> 0, encode |-> "ok"]

RECURSIVE SeqsUpTo(_, _)
SeqsUpTo(S, n) ==
    IF n = 0 THEN {<< >>}
    ELSE LET shorter == SeqsUpTo(S, n - 1)
         IN  shorter \cup {Append(s, e) : s \in {t \in shorter : Len(t) = n - 1}, e \in S}

KnownLists == SeqsUpTo(StaffIds \X KnownEmbeddings, MaxKnown)

-----------------------------------------------------------------------------
(* The libraries *)

(* face_recognition.face_locations: the regions, in the locator's order *)
FaceLocations(image) == [i \in 1..image.faces |-> i]

(* the encoding of region i of the image: regions of one image differ *)
RegionEncoding(image, i) ==
    LET x == (image.first + 40 * (i - 1)) % (40 * (MaxCoord + 1))
    IN  <<x, x>>

(* face_recognition.face_encodings: one encoding per region handed in *)
FaceEncodings(image, face_locations) ==
    IF image.encode = "empty" THEN << >>
    ELSE [i \in 1..Len(face_locations) |-> RegionEncoding(image, face_locations[i])]

RECURSIVE ISqrtBetween(_, _, _)
ISqrtBetween(x, lo, hi) ==
    IF lo >= hi THEN lo
    ELSE LET mid == (lo + hi + 1) \div 2
         IN  IF mid * mid <= x THEN ISqrtBetween(x, mid, hi)
             ELSE ISqrtBetween(x, lo, mid - 1)

ISqrt(x) == ISqrtBetween(x, 0, x)

RECURSIVE SumSquares(_, _, _)
SumSquares(a, b, i) ==
    IF i > Len(a) THEN 0
    ELSE (a[i] - b[i]) * (a[i] - b[i]) + SumSquares(a, b, i + 1)

(* face_recognition.face_distance([known], unknown) raises when the two   *)
(* encodings cannot be subtracted (numpy cannot broadcast their shapes,   *)
(* or one of them is None)                                                *)
FaceDistanceRaises(known_encoding, unknown_encoding) ==
    Len(known_encoding) # Len(unknown_encoding) \/ Len(known_encoding) = 0

(* face_recognition.face_distance([known], unknown)[0]: Euclidean norm *)
FaceDistance(known_encoding, unknown_encoding) ==
    ISqrt(SumSquares(known_encoding, unknown_encoding, 1))

-----------------------------------------------------------------------------
(* extract_face_encoding *)

NoFaceDetected == <<"No face detected in the image">>
NotInstalled == <<"Face recognition libraries not installed">>
NoEncoding == <<"Could not generate face encoding">>

(* error_msg = f"Error processing image: {str(e)}" *)
ErrorProcessing(e) == <<"Error processing image: ", e>>

(* a call the running operation makes into a library *)
Call(stage, side, n) == [stage |-> stage, side |-> side, n |-> n]

(* the check for an empty list of regions left out *)
NoFacesUnchecked(face_locations) == FALSE

(* `if not face_locations` *)
NoFaces(face_locations) == Len(face_locations) = 0

(* lines 71-72: `logger.warning(f"Multiple faces detected ...")` *)
MultipleFaces(face_locations, side) ==
    IF Len(face_locations) > 1
    THEN <<[level |-> "warning", side |-> side, faces |-> Len(face_locations)]>>
    ELSE << >>

(* lines 50-53: an uploaded file is read from its current position; read  *)
(* at its end it gives no bytes, which Image.open cannot identify         *)
Read(image_file, st) ==
    IF st.in_memory /\ st.at_end THEN [image_file EXCEPT !.load = "fail"]
    ELSE image_file

(* line 52: `image_file.read()` leaves an uploaded file at its end; a     *)
(* path is opened anew by load_image_file (line 60)                       *)
AfterRead(st, avail) ==
    IF avail /\ st.in_memory THEN [st EXCEPT !.at_end = TRUE] ELSE st

(* an uploaded file as the request hands it over / a path *)
FreshUpload == [in_memory |-> TRUE, at_end |-> FALSE]
PathSource == [in_memory |-> FALSE, at_end |-> FALSE]

(* the encoding of the last region taken instead of the first *)
SelectLastEncoding(face_encodings) == face_encodings[Len(face_encodings)]

(* `return face_encodings[0], ""` *)
SelectEncoding(face_encodings) == face_encodings[1]

(* extract_face_encoding that raises for an image without a face instead  *)
(* of returning (None, message)                                            *)
ExtractFaceEncodingRaising(image_file, side, avail) ==
    IF avail /\ image_file.load = "ok" /\ image_file.locate = "ok"
             /\ image_file.faces = 0
    THEN [raised |-> TRUE, encoding |-> None, error |-> NoFaceDetected,
          calls |-> <<Call("load", side, 0), Call("locate", side, 0)>>, log |-> << >>]
    ELSE [raised |-> FALSE, encoding |-> None, error |-> NotInstalled, calls |-> << >>,
             log |-> << >>]

(* The result of extract_face_encoding(image_file) with the library calls  *)
(* it makes: encoding (None on every failure), error, calls.  `side` only  *)
(* labels the calls.  Every return is inside the try block or its handler  *)
(* (lines 48-89), so nothing is raised to the caller.                      *)
ExtractFaceEncoding(image_file, side, avail) ==
    LET load == Call("load", side, 0)
        face_locations == FaceLocations(image_file)
        locate == Call("locate", side, Len(face_locations))
        encode == Call("encode", side, Len(face_locations))
        face_encodings == FaceEncodings(image_file, face_locations)
        warning == MultipleFaces(face_locations, side)
    IN  IF ~avail THEN
            [raised |-> FALSE, encoding |-> None, error |-> NotInstalled, calls |-> << >>,
             log |-> << >>]
        ELSE IF image_file.load = "fail" THEN
            [raised |-> FALSE, encoding |-> None,
             error |-> ErrorProcessing("cannot identify image file"), calls |-> <<load>>,
             log |-> << >>]
        ELSE IF image_file.locate = "raise" THEN
            [raised |-> FALSE, encoding |-> None,
             error |-> ErrorProcessing("face_locations failed"),
             calls |-> <<load, Call("locate", side, 0)>>, log |-> << >>]
        ELSE IF NoFaces(face_locations) THEN
            [raised |-> FALSE, encoding |-> None, error |-> NoFaceDetected,
             calls |-> <<load, locate>>, log |-> << >>]
        ELSE IF image_file.encode = "raise" THEN
            [raised |-> FALSE, encoding |-> None,
             error |-> ErrorProcessing("face_encodings failed"),
             calls |-> <<load, locate, encode>>, log |-> warning]
        ELSE IF Len(face_encodings) = 0 THEN
            [raised |-> FALSE, encoding |-> None, error |-> NoEncoding,
             calls |-> <<load, locate, encode>>, log |-> warning]
        ELSE
            [raised |-> FALSE, encoding |-> SelectEncoding(face_encodings), error |-> << >>,
             calls |-> <<load, locate, encode>>, log |-> warning]

-----------------------------------------------------------------------------
(* compare_faces *)

(* `confidence_score = 1 - face_distance` *)
Confidence(face_distance) == 100 - face_distance

(* the comparison with the threshold turned around *)
IsMatchReversed(face_distance, thr) == face_distance >= thr

(* the comparison with the threshold made strict *)
IsMatchStrict(face_distance, thr) == face_distance < thr

(* `is_match = face_distance <= self.RECOGNITION_THRESHOLD` *)
IsMatch(face_distance, thr) == face_distance <= thr

(* what a comparison that did not get to its end leaves behind: nothing   *)
(* was logged (distance -1)                                               *)
Raised == [raised |-> TRUE, is_match |-> FALSE, confidence |-> 0, distance |-> -1]

(* `except Exception: ... return False, 0.0` *)
CompareFailed == [raised |-> FALSE, is_match |-> FALSE, confidence |-> 0, distance |-> -1]

(* The try block of compare_faces (lines 103-114) read with threshold     *)
(* thr; `fault` is whether the numeric runtime faults in this call.       *)
(* is_match and confidence are what is returned; distance is what line    *)
(* 112 logs.                                                              *)
CompareFacesTry(known_encoding, unknown_encoding, thr, fault) ==
    IF fault \/ FaceDistanceRaises(known_encoding, unknown_encoding) THEN
        Raised
    ELSE
        LET face_distance == FaceDistance(known_encoding, unknown_encoding)
        IN  [raised |-> FALSE,
             is_match |-> IsMatch(face_distance, thr),
             confidence |-> Confidence(face_distance),
             distance |-> face_distance]

(* compare_faces: the try block under its handler (lines 116-119) *)
CompareFaces(known_encoding, unknown_encoding, thr, fault) ==
    LET body == CompareFacesTry(known_encoding, unknown_encoding, thr, fault)
    IN  IF body.raised THEN CompareFailed ELSE body

-----------------------------------------------------------------------------
(* verify_face *)

(* the staff error reported under the label of the uploaded photo *)
StaffPhotoErrorMislabelled(staff_error) == <<"Uploaded photo error: ">> \o staff_error

(* f"Staff photo error: {staff_error}" *)
StaffPhotoError(staff_error) == <<"Staff photo error: ">> \o staff_error

(* the uploaded photo's error reported under the label of the staff photo *)
UploadedPhotoErrorMislabelled(uploaded_error) ==
    <<"Staff photo error: ">> \o uploaded_error

(* f"Uploaded photo error: {uploaded_error}" *)
UploadedPhotoError(uploaded_error) == <<"Uploaded photo error: ">> \o uploaded_error

(* the tuple verify_face returns *)
VerifyResult(is_match, confidence_score, error_message) ==
    [is_match |-> is_match, confidence |-> confidence_score,
     error_message |-> error_message]

(* f"Face verification failed: {str(e)}" *)
VerificationFailed(e) == <<"Face verification failed: ", e>>

(* the call a comparison makes into face_distance, and how it ended *)
DistanceCall(side, n, cmp) ==
    Call(IF cmp.distance < 0 THEN "distance_raised" ELSE "distance", side, n)

NoResult == VerifyResult(FALSE, 0, << >>)

Idle == pc = "idle"

(* no request is being handled / nothing has been answered *)
NoRequest == [rejected |-> "none"]
NoResponse == [status_code |-> 0, success |-> FALSE]

(* verify_face that starts with the uploaded photo and never gets to the  *)
(* staff photo                                                            *)
CallVerifyFaceProbeFirst ==
    /\ Idle
    /\ pc' = "verify_uploaded"
    /\ op' = "verify_face"
    /\ staff_photo_path' \in Images
    /\ uploaded_photo' \in Images
    /\ staff_encodings' = << >>
    /\ threshold' = RECOGNITION_THRESHOLD
    /\ staff_encoding' = None
    /\ uploaded_encoding' = None
    /\ results' = << >>
    /\ ret' = NoResult
    /\ exception' = "none"
    /\ trace' = << >>
    /\ logged' = << >>
    /\ stream' \in {FreshUpload, PathSource}
    /\ UNCHANGED <<available, restVars>>

(* a caller invokes verify_face(staff_photo_path, uploaded_photo) *)
CallVerifyFace ==
    /\ Idle
    /\ pc' = "verify_staff"
    /\ op' = "verify_face"
    /\ staff_photo_path' \in Images
    /\ uploaded_photo' \in Images
    /\ staff_encodings' = << >>
    /\ threshold' = RECOGNITION_THRESHOLD
    /\ staff_encoding' = None
    /\ uploaded_encoding' = None
    /\ results' = << >>
    /\ ret' = NoResult
    /\ exception' = "none"
    /\ trace' = << >>
    /\ UNCHANGED available
    /\ logged' = << >>
    /\ stream' \in {FreshUpload, PathSource}
    /\ UNCHANGED restVars

(* lines 134-136: extract the staff encoding, return if there is none; an *)
(* exception out of the extraction would be caught at lines 147-150       *)
VerifyStaff ==
    /\ pc = "verify_staff"
    /\ LET x == ExtractFaceEncoding(staff_photo_path, "staff", available)
       IN  /\ trace' = trace \o x.calls
           /\ logged' = logged \o x.log
           /\ staff_encoding' = x.encoding
           /\ IF x.raised
              THEN /\ ret' = VerifyResult(FALSE, 0, VerificationFailed("staff photo"))
                   /\ pc' = "done"
              ELSE IF x.encoding = None
              THEN /\ ret' = VerifyResult(FALSE, 0, StaffPhotoError(x.error))
                   /\ pc' = "done"
              ELSE /\ ret' = ret
                   /\ pc' = "verify_uploaded"
    /\ UNCHANGED <<available, op, staff_photo_path, uploaded_photo, staff_encodings,
                   threshold, uploaded_encoding, results, exception>>
    /\ UNCHANGED <<stream, restVars>>

(* lines 138-140: extract the uploaded encoding, return if there is none; *)
(* an exception out of the extraction would be caught at lines 147-150    *)
VerifyUploaded ==
    /\ pc = "verify_uploaded"
    /\ LET x == ExtractFaceEncoding(Read(uploaded_photo, stream), "uploaded", available)
       IN  /\ trace' = trace \o x.calls
           /\ logged' = logged \o x.log
           /\ uploaded_encoding' = x.encoding
           /\ IF x.raised
              THEN /\ ret' = VerifyResult(FALSE, 0, VerificationFailed("uploaded photo"))
                   /\ pc' = "done"
              ELSE IF x.encoding = None
              THEN /\ ret' = VerifyResult(FALSE, 0, UploadedPhotoError(x.error))
                   /\ pc' = "done"
              ELSE /\ ret' = ret
                   /\ pc' = "verify_compare"
    /\ UNCHANGED <<available, op, staff_photo_path, uploaded_photo, staff_encodings,
                   threshold, staff_encoding, results, exception>>
    /\ stream' = AfterRead(stream, available)
    /\ UNCHANGED restVars

(* lines 142-150: compare the two encodings and return; an exception out   *)
(* of the comparison is turned into an error message                       *)
VerifyCompare ==
    /\ pc = "verify_compare"
    /\ \E fault \in BOOLEAN :
         LET cmp == CompareFaces(staff_encoding, uploaded_encoding, threshold, fault)
         IN  /\ trace' = Append(trace, DistanceCall("staff", 0, cmp))
             /\ ret' = IF cmp.raised
                       THEN VerifyResult(FALSE, 0, VerificationFailed("compare_faces failed"))
                       ELSE VerifyResult(cmp.is_match, cmp.confidence, << >>)
    /\ pc' = "done"
    /\ UNCHANGED <<available, op, staff_photo_path, uploaded_photo, staff_encodings,
                   threshold, staff_encoding, uploaded_encoding, results, exception>>
    /\ UNCHANGED <<logged, stream, restVars>>

-----------------------------------------------------------------------------
(* batch_verify_faces *)

(* the empty `results` returned instead of one entry per staff id *)
NoFaceResultsEmpty(encodings) == << >>

(* `[(staff_id, False, 0.0) for staff_id, _ in staff_encodings]` *)
NoFaceResults(encodings) ==
    [i \in 1..Len(encodings) |-> <<encodings[i][1], FALSE, 0>>]

(* the entry put at the front of the list instead of at its end *)
PrependResult(res, staff_id, cmp) ==
    <<(<<staff_id, cmp.is_match, cmp.confidence>>)>> \o res

(* `results.append((staff_id, is_match, confidence))` *)
AppendResult(res, staff_id, cmp) ==
    Append(res, <<staff_id, cmp.is_match, cmp.confidence>>)

(* a caller invokes batch_verify_faces(staff_encodings, uploaded_photo) *)
CallBatchVerifyFaces ==
    /\ Idle
    /\ pc' = "batch_extract"
    /\ op' = "batch_verify_faces"
    /\ staff_photo_path' = NoImage
    /\ uploaded_photo' \in Images
    /\ staff_encodings' \in KnownLists
    /\ threshold' = RECOGNITION_THRESHOLD
    /\ staff_encoding' = None
    /\ uploaded_encoding' = None
    /\ results' = << >>
    /\ ret' = NoResult
    /\ exception' = "none"
    /\ trace' = << >>
    /\ UNCHANGED available
    /\ logged' = << >>
    /\ stream' = FreshUpload
    /\ UNCHANGED restVars

(* lines 163-168: extract the uploaded encoding; without one, return a    *)
(* non-match for every staff id.  The extraction is outside every try     *)
(* block of batch_verify_faces: an exception out of it would leave the    *)
(* call                                                                   *)
BatchExtract ==
    /\ pc = "batch_extract"
    /\ LET x == ExtractFaceEncoding(Read(uploaded_photo, stream), "uploaded", available)
       IN  /\ trace' = trace \o x.calls
           /\ logged' = logged \o x.log
           /\ uploaded_encoding' = x.encoding
           /\ exception' = IF x.raised THEN "raised" ELSE "none"
           /\ IF x.raised
              THEN /\ results' = results
                   /\ pc' = "done"
              ELSE IF x.encoding = None
              THEN /\ results' = NoFaceResults(staff_encodings)
                   /\ pc' = "done"
              ELSE /\ results' = results
                   /\ pc' = "batch_loop"
    /\ UNCHANGED <<available, op, staff_photo_path, uploaded_photo, staff_encodings,
                   threshold, staff_encoding, ret>>
    /\ stream' = AfterRead(stream, available)
    /\ UNCHANGED restVars

(* the loop given up at the first comparison that fails *)
BatchCompareAborting ==
    /\ pc = "batch_loop"
    /\ Len(results) < Len(staff_encodings)
    /\ \E fault \in BOOLEAN :
         LET i == Len(results) + 1
             staff_id == staff_encodings[i][1]
             cmp == CompareFaces(staff_encodings[i][2], uploaded_encoding,
                                 threshold, fault)
         IN  /\ trace' = Append(trace, DistanceCall("known", i, cmp))
             /\ results' = AppendResult(results, staff_id, cmp)
             /\ pc' = IF cmp.distance < 0 THEN "done" ELSE pc
    /\ UNCHANGED <<available, op, staff_photo_path, uploaded_photo,
                   staff_encodings, threshold, staff_encoding, uploaded_encoding, ret,
                   exception>>
    /\ UNCHANGED <<logged, stream, restVars>>

(* lines 171-177: one iteration of the loop over staff_encodings; an       *)
(* exception out of the comparison is a non-match for that staff id        *)
BatchCompare ==
    /\ pc = "batch_loop"
    /\ Len(results) < Len(staff_encodings)
    /\ \E fault \in BOOLEAN :
         LET i == Len(results) + 1
             staff_id == staff_encodings[i][1]
             cmp == CompareFaces(staff_encodings[i][2], uploaded_encoding,
                                 threshold, fault)
         IN  /\ trace' = Append(trace, DistanceCall("known", i, cmp))
             /\ results' = IF cmp.raised
                           THEN Append(results, <<staff_id, FALSE, 0>>)
                           ELSE AppendResult(results, staff_id, cmp)
    /\ UNCHANGED <<available, pc, op, staff_photo_path, uploaded_photo,
                   staff_encodings, threshold, staff_encoding, uploaded_encoding, ret,
                   exception>>
    /\ UNCHANGED <<logged, stream, restVars>>

(* line 179: `return results` when the loop is over *)
BatchReturn ==
    /\ pc = "batch_loop"
    /\ Len(results) = Len(staff_encodings)
    /\ pc' = "done"
    /\ UNCHANGED <<available, op, staff_photo_path, uploaded_photo, staff_encodings,
                   threshold, staff_encoding, uploaded_encoding, results, ret,
                   exception, trace>>
    /\ UNCHANGED <<logged, stream, restVars>>

-----------------------------------------------------------------------------
(* compare_faces called on its own, with the threshold it reads *)

CallCompareFaces ==
    /\ Idle
    /\ \E known_encoding \in Embeddings, unknown_encoding \in Embeddings,
          thr \in Thresholds, fault \in BOOLEAN :
         LET cmp == CompareFaces(known_encoding, unknown_encoding, thr, fault)
         IN  /\ ret' = VerifyResult(cmp.is_match, cmp.confidence, << >>)
             /\ exception' = IF cmp.raised THEN "raised" ELSE "none"
             /\ trace' = <<DistanceCall("known", cmp.distance, cmp)>>
             /\ threshold' = thr
             /\ staff_encoding' = known_encoding
             /\ uploaded_encoding' = unknown_encoding
    /\ pc' = "done"
    /\ op' = "compare_faces"
    /\ staff_photo_path' = NoImage
    /\ uploaded_photo' = NoImage
    /\ staff_encodings' = << >>
    /\ results' = << >>
    /\ UNCHANGED available
    /\ logged' = << >>
    /\ stream' = PathSource
    /\ UNCHANGED restVars

-----------------------------------------------------------------------------
(* get_face_locations, and calls repeated on one image_file *)

(* get_face_locations(image_file): the regions, [] on every exception.     *)
(* There is no FACE_RECOGNITION_AVAILABLE check: without the library the   *)
(* first use of face_recognition / np raises inside the try block.         *)
GetFaceLocations(image_file, avail) ==
    IF ~avail \/ image_file.load = "fail" \/ image_file.locate = "raise"
    THEN << >>
    ELSE FaceLocations(image_file)

(* what is left untouched by a call repeated on one image_file *)
repeatFrame == <<available, staff_photo_path, staff_encodings, threshold,
                 staff_encoding, uploaded_encoding, results, ret, exception,
                 trace, logged, encoding_model, workers, apiVars>>

(* a caller invokes get_face_locations(image_file) on a fresh source *)
CallGetFaceLocations ==
    /\ Idle
    /\ pc' = "again"
    /\ op' = "get_face_locations"
    /\ uploaded_photo' \in Images
    /\ \E st \in {FreshUpload, PathSource} :
           /\ returned' = <<GetFaceLocations(Read(uploaded_photo', st), available)>>
           /\ stream' = AfterRead(st, TRUE)
    /\ UNCHANGED repeatFrame

(* the caller invokes get_face_locations again on the same object *)
GetFaceLocationsAgain ==
    /\ pc = "again" /\ op = "get_face_locations"
    /\ pc' = "done"
    /\ returned' = Append(returned,
                          GetFaceLocations(Read(uploaded_photo, stream), available))
    /\ stream' = AfterRead(stream, TRUE)
    /\ UNCHANGED <<op, uploaded_photo, repeatFrame>>

(* what the caller of extract_face_encoding gets: (encoding, error) *)
Extracted(x) == <<x.encoding, x.error>>

(* a caller invokes extract_face_encoding(image_file) on a fresh source *)
CallExtractFaceEncoding ==
    /\ Idle
    /\ pc' = "again"
    /\ op' = "extract_face_encoding"
    /\ uploaded_photo' \in Images
    /\ \E st \in {FreshUpload, PathSource} :
           /\ returned' = <<Extracted(ExtractFaceEncoding(Read(uploaded_photo', st),
                                                          "uploaded", available))>>
           /\ stream' = AfterRead(st, available)
    /\ UNCHANGED repeatFrame

(* the caller invokes extract_face_encoding again on the same object *)
ExtractFaceEncodingAgain ==
    /\ pc = "again" /\ op = "extract_face_encoding"
    /\ pc' = "done"
    /\ returned' = Append(returned,
                          Extracted(ExtractFaceEncoding(Read(uploaded_photo, stream),
                                                        "uploaded", available)))
    /\ stream' = AfterRead(stream, available)
    /\ UNCHANGED <<op, uploaded_photo, repeatFrame>>

-----------------------------------------------------------------------------
(* the finished call hands its result to the caller; the service, which    *)
(* keeps nothing of a call, is ready for the next one                      *)
Return ==
    /\ pc = "done"
    /\ pc' = "idle"
    /\ op' = "none"
    /\ staff_photo_path' = NoImage
    /\ uploaded_photo' = NoImage
    /\ staff_encodings' = << >>
    /\ threshold' = RECOGNITION_THRESHOLD
    /\ staff_encoding' = None
    /\ uploaded_encoding' = None
    /\ results' = << >>
    /\ ret' = NoResult
    /\ exception' = "none"
    /\ trace' = << >>
    /\ UNCHANGED available
    /\ logged' = << >>
    /\ stream' = PathSource
    /\ returned' = << >>
    /\ UNCHANGED <<encoding_model, workers, apiVars>>

-----------------------------------------------------------------------------

Init ==
    /\ available \in BOOLEAN
    /\ pc = "idle"
    /\ op = "none"
    /\ staff_photo_path = NoImage
    /\ uploaded_photo = NoImage
    /\ staff_encodings = << >>
    /\ threshold = RECOGNITION_THRESHOLD
    /\ staff_encoding = None
    /\ uploaded_encoding = None
    /\ results = << >>
    /\ ret = NoResult
    /\ exception = "none"
    /\ trace = << >>
    /\ logged = << >>
    /\ stream = PathSource
    /\ encoding_model = "large"
    /\ workers = << >>
    /\ request = NoRequest
    /\ response = NoResponse
    /\ records = << >>
    /\ reached = 0
    /\ returned = << >>

Next ==
    \/ CallVerifyFace
    \/ VerifyStaff
    \/ VerifyUploaded
    \/ VerifyCompare
    \/ CallBatchVerifyFaces
    \/ BatchExtract
    \/ BatchCompare
    \/ BatchReturn
    \/ CallCompareFaces
    \/ CallGetFaceLocations
    \/ GetFaceLocationsAgain
    \/ CallExtractFaceEncoding
    \/ ExtractFaceEncodingAgain
    \/ Return

Spec == Init /\ [][Next]_vars

-----------------------------------------------------------------------------
(* FaceVerificationAPI.post (views.py) *)

(* the photos the requests of the view model come with: one that cannot   *)
(* be read, one the locator fails on, one without a face, one the encoder *)
(* fails on, and two faces far apart                                      *)
ApiImages ==
    {i \in Images : i.faces = 0 \/ i.encode = "raise"}
    \cup
    {[load |-> "ok", locate |-> "ok", faces |-> 1, first |-> x, encode |-> "ok"] :
        x \in {0, 40 * MaxCoord}}

(* the early returns of post (lines 50-100) with their status codes *)
Rejections ==
    {<<"MISSING_USER_ID", 400>>, <<"MISSING_PHOTO", 400>>, <<"FILE_TOO_LARGE", 400>>,
     <<"STAFF_NOT_FOUND", 404>>, <<"NO_REFERENCE_PHOTO", 400>>,
     <<"FACE_RECOGNITION_UNAVAILABLE", 503>>}

(* `"No face detected" in error_message` *)
NoFaceIn(error_message) ==
    \E k \in DOMAIN error_message : error_message[k] = NoFaceDetected[1]

(* the status every attempt is recorded with being the model's default *)
AttemptStatusDefault(is_match, error_message) == "error"

(* lines 108-121: the status of the attempt *)
AttemptStatus(is_match, error_message) ==
    IF error_message # << >> THEN
        IF NoFaceIn(error_message) THEN "no_face" ELSE "error"
    ELSE IF is_match THEN "success"
    ELSE "failed"

(* `confidence_score if confidence_score > 0 else None` *)
PositiveOrNone(confidence_score) ==
    IF confidence_score > 0 THEN confidence_score ELSE None

(* is_match as compare_faces computed it is a numpy.bool_ (line 110), the *)
(* False of every other return is Python's                                *)
NumpyBool == trace # << >> /\ trace[Len(trace)].stage = "distance"

(* `is_match and not error_message` is is_match itself when that is       *)
(* false: a numpy.bool_, which JsonResponse cannot serialize              *)
Unserializable(is_match) == NumpyBool /\ ~is_match

(* lines 50-100: the request is answered before verify_face is reached *)
PostRejected ==
    /\ Idle
    /\ \E r \in Rejections :
           /\ request' = [rejected |-> r[1]]
           /\ response' = [status_code |-> r[2], success |-> FALSE]
    /\ UNCHANGED <<available, pc, op, staff_photo_path, uploaded_photo,
                   staff_encodings, threshold, staff_encoding, uploaded_encoding,
                   results, ret, exception, trace, logged, stream,
                   encoding_model, workers, records, reached, returned>>

(* lines 102-106: the request passes the checks and post calls            *)
(* verify_face(staff.photo.path, request.FILES['photo'])                  *)
PostAccepted ==
    /\ Idle
    /\ reached < MaxRequests
    /\ request' = [rejected |-> "accepted"]
    /\ response' = NoResponse
    /\ reached' = reached + 1
    /\ pc' = "verify_staff"
    /\ op' = "verify_face"
    /\ staff_photo_path' \in ApiImages
    /\ uploaded_photo' \in ApiImages
    /\ staff_encodings' = << >>
    /\ threshold' = RECOGNITION_THRESHOLD
    /\ staff_encoding' = None
    /\ uploaded_encoding' = None
    /\ results' = << >>
    /\ ret' = NoResult
    /\ exception' = "none"
    /\ trace' = << >>
    /\ logged' = << >>
    /\ stream' = FreshUpload
    /\ UNCHANGED <<available, encoding_model, workers, records, returned>>

(* lines 108-161: the attempt is recorded, with the captured photo read   *)
(* from the start of the upload (line 136)                                *)
PostRecord ==
    /\ pc = "done" /\ op = "verify_face"
    /\ request.rejected = "accepted"
    /\ pc' = "recorded"
    /\ LET rewound == [stream EXCEPT !.at_end = FALSE]
       IN  /\ records' = Append(records,
                  [status |-> AttemptStatus(ret.is_match, ret.error_message),
                   confidence_score |-> PositiveOrNone(ret.confidence),
                   captured_photo |-> Read(uploaded_photo, rewound).load])
           /\ stream' = AfterRead(rewound, TRUE)
    /\ UNCHANGED <<available, op, staff_photo_path, uploaded_photo, staff_encodings,
                   threshold, staff_encoding, uploaded_encoding, results, ret,
                   exception, trace, logged, encoding_model, workers, request,
                   response, reached, returned>>

(* lines 163-186: the response; an exception while it is built is         *)
(* answered by the handler at lines 180-186                               *)
PostRespond ==
    /\ pc = "recorded"
    /\ pc' = "idle"
    /\ response' =
           IF Unserializable(ret.is_match)
           THEN [status_code |-> 500, success |-> FALSE]
           ELSE [status_code |-> IF ret.error_message = << >> THEN 200 ELSE 422,
                 success |-> ret.is_match /\ ret.error_message = << >>]
    /\ UNCHANGED <<available, op, staff_photo_path, uploaded_photo, staff_encodings,
                   threshold, staff_encoding, uploaded_encoding, results, ret,
                   exception, trace, logged, stream, encoding_model, workers,
                   request, records, reached, returned>>

NextApi ==
    \/ PostRejected
    \/ PostAccepted
    \/ VerifyStaff
    \/ VerifyUploaded
    \/ VerifyCompare
    \/ PostRecord
    \/ PostRespond

SpecApi == Init /\ [][NextApi]_vars

-----------------------------------------------------------------------------
(* Calls running concurrently on the one instance face_recognition_service *)
(* (line 208), the runtime supporting concurrent inference.  A call keeps  *)
(* its data in locals; of the instance it reads encoding_model.            *)

Workers == {"w1", "w2"}

ConcImages ==
    {[load |-> "fail", locate |-> "ok", faces |-> 0, first |-> 0, encode |-> "ok"],
     [load |-> "ok", locate |-> "ok", faces |-> 0, first |-> 0, encode |-> "ok"]}
    \cup
    {[load |-> "ok", locate |-> "ok", faces |-> 1, first |-> x, encode |-> "ok"] :
        x \in {0, 40 * MaxCoord}}

ConcKnownLists ==
    {<< <<"s1", <<0, 0>>>> >>,
     << <<"s1", <<0, 0, 0>>>>, <<"s2", <<40 * MaxCoord, 40 * MaxCoord>>>> >>}

(* the locals of a call that has not started *)
IdleWorker ==
    [pc |-> "idle", op |-> "none", staff_photo_path |-> NoImage,
     uploaded_photo |-> NoImage, stream |-> PathSource, staff_encodings |-> << >>,
     staff_encoding |-> None, uploaded_encoding |-> None, results |-> << >>,
     ret |-> NoResult, model |-> None]

(* a step of a call writes its own locals and nothing else *)
concFrame == <<available, pc, op, staff_photo_path, uploaded_photo, staff_encodings,
               threshold, staff_encoding, uploaded_encoding, results, ret,
               exception, trace, logged, stream, encoding_model, apiVars, returned>>

(* line 33: `self.encoding_model = getattr(settings, ...)`, and no call    *)
(* running yet                                                             *)
InitConc ==
    /\ available \in BOOLEAN
    /\ pc = "idle"
    /\ op = "none"
    /\ staff_photo_path = NoImage
    /\ uploaded_photo = NoImage
    /\ staff_encodings = << >>
    /\ threshold = RECOGNITION_THRESHOLD
    /\ staff_encoding = None
    /\ uploaded_encoding = None
    /\ results = << >>
    /\ ret = NoResult
    /\ exception = "none"
    /\ trace = << >>
    /\ logged = << >>
    /\ stream = PathSource
    /\ encoding_model \in {"large", "small"}
    /\ workers = [w \in Workers |-> IdleWorker]
    /\ request = NoRequest
    /\ response = NoResponse
    /\ records = << >>
    /\ reached = 0
    /\ returned = << >>

(* a thread calls verify_face *)
ThreadCallVerifyFace(w) ==
    /\ workers[w].pc = "idle"
    /\ \E staff \in ConcImages, probe \in ConcImages :
           workers' = [workers EXCEPT ![w] =
               [IdleWorker EXCEPT !.pc = "verify_staff", !.op = "verify_face",
                                  !.staff_photo_path = staff,
                                  !.uploaded_photo = probe,
                                  !.stream = FreshUpload]]
    /\ UNCHANGED concFrame

(* the staff encoding kept in an attribute of the shared instance, where  *)
(* every running call reads it, instead of a local                        *)
ThreadVerifyStaffShared(w) ==
    /\ workers[w].pc = "verify_staff"
    /\ LET me == workers[w]
           x == ExtractFaceEncoding(me.staff_photo_path, "staff", available)
       IN  workers' = [v \in Workers |->
               IF v = w
               THEN IF x.encoding = None
                    THEN [me EXCEPT !.pc = "done", !.model = encoding_model,
                             !.ret = VerifyResult(FALSE, 0, StaffPhotoError(x.error))]
                    ELSE [me EXCEPT !.pc = "verify_uploaded", !.model = encoding_model,
                             !.staff_encoding = x.encoding]
               ELSE [workers[v] EXCEPT !.staff_encoding = x.encoding]]
    /\ UNCHANGED concFrame

(* lines 134-136 in a thread *)
ThreadVerifyStaff(w) ==
    /\ workers[w].pc = "verify_staff"
    /\ LET me == workers[w]
           x == ExtractFaceEncoding(me.staff_photo_path, "staff", available)
       IN  workers' = [workers EXCEPT ![w] =
               IF x.encoding = None
               THEN [me EXCEPT !.pc = "done", !.model = encoding_model,
                        !.ret = VerifyResult(FALSE, 0, StaffPhotoError(x.error))]
               ELSE [me EXCEPT !.pc = "verify_uploaded", !.model = encoding_model,
                        !.staff_encoding = x.encoding]]
    /\ UNCHANGED concFrame

(* lines 138-140 in a thread *)
ThreadVerifyUploaded(w) ==
    /\ workers[w].pc = "verify_uploaded"
    /\ LET me == workers[w]
           x == ExtractFaceEncoding(Read(me.uploaded_photo, me.stream), "uploaded",
                                    available)
           after == AfterRead(me.stream, available)
       IN  workers' = [workers EXCEPT ![w] =
               IF x.encoding = None
               THEN [me EXCEPT !.pc = "done", !.stream = after,
                        !.ret = VerifyResult(FALSE, 0, UploadedPhotoError(x.error))]
               ELSE [me EXCEPT !.pc = "verify_compare", !.stream = after,
                        !.uploaded_encoding = x.encoding]]
    /\ UNCHANGED concFrame

(* lines 142-145 in a thread *)
ThreadVerifyCompare(w) ==
    /\ workers[w].pc = "verify_compare"
    /\ LET me == workers[w]
           cmp == CompareFaces(me.staff_encoding, me.uploaded_encoding,
                               RECOGNITION_THRESHOLD, FALSE)
       IN  workers' = [workers EXCEPT ![w] =
               [me EXCEPT !.pc = "done",
                          !.ret = VerifyResult(cmp.is_match, cmp.confidence, << >>)]]
    /\ UNCHANGED concFrame

(* a thread calls batch_verify_faces *)
ThreadCallBatchVerifyFaces(w) ==
    /\ workers[w].pc = "idle"
    /\ \E probe \in ConcImages, encodings \in ConcKnownLists :
           workers' = [workers EXCEPT ![w] =
               [IdleWorker EXCEPT !.pc = "batch_extract", !.op = "batch_verify_faces",
                                  !.uploaded_photo = probe,
                                  !.staff_encodings = encodings,
                                  !.stream = FreshUpload]]
    /\ UNCHANGED concFrame

(* lines 163-168 in a thread *)
ThreadBatchExtract(w) ==
    /\ workers[w].pc = "batch_extract"
    /\ LET me == workers[w]
           x == ExtractFaceEncoding(Read(me.uploaded_photo, me.stream), "uploaded",
                                    available)
           after == AfterRead(me.stream, available)
       IN  workers' = [workers EXCEPT ![w] =
               IF x.encoding = None
               THEN [me EXCEPT !.pc = "done", !.stream = after,
                        !.model = encoding_model,
                        !.results = NoFaceResults(me.staff_encodings)]
               ELSE [me EXCEPT !.pc = "batch_loop", !.stream = after,
                        !.model = encoding_model,
                        !.uploaded_encoding = x.encoding]]
    /\ UNCHANGED concFrame

(* lines 171-177 in a thread: one iteration of the loop *)
ThreadBatchCompare(w) ==
    /\ workers[w].pc = "batch_loop"
    /\ Len(workers[w].results) < Len(workers[w].staff_encodings)
    /\ LET me == workers[w]
           i == Len(me.results) + 1
           cmp == CompareFaces(me.staff_encodings[i][2], me.uploaded_encoding,
                               RECOGNITION_THRESHOLD, FALSE)
       IN  workers' = [workers EXCEPT ![w] =
               [me EXCEPT !.results =
                   AppendResult(me.results, me.staff_encodings[i][1], cmp)]]
    /\ UNCHANGED concFrame

(* line 179 in a thread *)
ThreadBatchReturn(w) ==
    /\ workers[w].pc = "batch_loop"
    /\ Len(workers[w].results) = Len(workers[w].staff_encodings)
    /\ workers' = [workers EXCEPT ![w].pc = "done"]
    /\ UNCHANGED concFrame

(* the caller has its result; the locals of the call are gone *)
ThreadReturn(w) ==
    /\ workers[w].pc = "done"
    /\ workers' = [workers EXCEPT ![w] = IdleWorker]
    /\ UNCHANGED concFrame

NextConc ==
    \/ \E w \in Workers : ThreadCallVerifyFace(w)
    \/ \E w \in Workers : ThreadVerifyStaff(w)
    \/ \E w \in Workers : ThreadVerifyUploaded(w)
    \/ \E w \in Workers : ThreadVerifyCompare(w)
    \/ \E w \in Workers : ThreadCallBatchVerifyFaces(w)
    \/ \E w \in Workers : ThreadBatchExtract(w)
    \/ \E w \in Workers : ThreadBatchCompare(w)
    \/ \E w \in Workers : ThreadBatchReturn(w)
    \/ \E w \in Workers : ThreadReturn(w)

SpecConc == InitConc /\ [][NextConc]_vars

-----------------------------------------------------------------------------
(* Vocabulary of the claims *)

Done(operation) == pc = "done" /\ op = operation

(* the decision of a VerificationOutcome, read off the tuple verify_face   *)
(* returns                                                                 *)
Decision(r) ==
    IF r.error_message = << >> THEN
        IF r.is_match THEN "matched" ELSE "not_matched"
    ELSE IF r.error_message = StaffPhotoError(NoFaceDetected) THEN "no_face_reference"
    ELSE IF r.error_message = UploadedPhotoError(NoFaceDetected) THEN "no_face_probe"
    ELSE "processing_error"

(* the image decodes and the locator returns an empty list for it *)
ZeroFaces(image) == image.load = "ok" /\ image.locate = "ok" /\ image.faces = 0

(* the image decodes, the locator finds a face and the encoder encodes it *)
OneFace(image) ==
    image.load = "ok" /\ image.locate = "ok" /\ image.faces >= 1 /\ image.encode = "ok"

CallsOf(stages) == {j \in DOMAIN trace : trace[j].stage \in stages}

Comparisons == CallsOf({"distance", "distance_raised"})

(* the comparison with the i-th known encoding was made / failed *)
ComparedAt(i) == \E j \in Comparisons : trace[j].side = "known" /\ trace[j].n = i
FailedAt(i) ==
    \E j \in CallsOf({"distance_raised"}) : trace[j].side = "known" /\ trace[j].n = i

-----------------------------------------------------------------------------
(* C1: a verify_face call whose reference image has zero detectable faces *)
(* ends as no_face_reference, with a message that names the staff photo,  *)
(* whatever the probe is; the probe is not even looked at.                *)
C1_ReferenceCheckedFirst ==
    (Done("verify_face") /\ available /\ ZeroFaces(staff_photo_path)) =>
        /\ Decision(ret) = "no_face_reference"
        /\ Head(ret.error_message) = "Staff photo error: "
        /\ ~ret.is_match /\ ret.confidence = 0
        /\ \A j \in DOMAIN trace : trace[j].side = "staff"

(* C1 witness: both images have no face (the dual failure) *)
C1_Witness ==
    /\ Done("verify_face") /\ available
    /\ ZeroFaces(staff_photo_path) /\ ZeroFaces(uploaded_photo)
    /\ Decision(ret) = "no_face_reference"

(* C2: the encoder is never called with an empty list of regions: every   *)
(* call of face_encodings follows a call of face_locations on the same    *)
(* image that returned at least one region.                               *)
C2_NoEncodingWithoutFace ==
    \A j \in CallsOf({"encode"}) :
        /\ trace[j].n >= 1
        /\ j > 1
        /\ trace[j - 1] = Call("locate", trace[j].side, trace[j].n)

(* C2 witness: a batch call has returned for a probe without a face, and  *)
(* the locator is the last library call it made                           *)
C2_Witness ==
    /\ Done("batch_verify_faces") /\ available /\ ZeroFaces(uploaded_photo)
    /\ Len(staff_encodings) >= 1
    /\ trace[Len(trace)] = Call("locate", "uploaded", 0)

(* C3: batch_verify_faces with a probe without a face returns one entry   *)
(* <<staff_id, FALSE, 0.0>> per input entry, in the input's order, and    *)
(* compares nothing.                                                      *)
C3_NoFaceProbeBatch ==
    (Done("batch_verify_faces") /\ ZeroFaces(uploaded_photo)) =>
        /\ Len(results) = Len(staff_encodings)
        /\ \A i \in 1..Len(staff_encodings) :
               results[i] = <<staff_encodings[i][1], FALSE, 0>>
        /\ Comparisons = {}

(* C3 witness: such a call with MaxKnown known encodings of two staff ids *)
C3_Witness ==
    /\ Done("batch_verify_faces") /\ available /\ ZeroFaces(uploaded_photo)
    /\ Len(staff_encodings) = MaxKnown
    /\ staff_encodings[1][1] # staff_encodings[2][1]
    /\ Len(results) = MaxKnown

(* C4: batch_verify_faces with a probe that has a face returns as many    *)
(* entries as it was given known encodings, the i-th with the i-th staff  *)
(* id and the is_match and confidence of compare_faces on the i-th known  *)
(* encoding and the probe's encoding.                                     *)
C4_BatchInOrder ==
    (Done("batch_verify_faces") /\ uploaded_encoding # None) =>
        /\ Len(results) = Len(staff_encodings)
        /\ \A i \in 1..Len(staff_encodings) :
               LET cmp == CompareFaces(staff_encodings[i][2], uploaded_encoding,
                                       RECOGNITION_THRESHOLD, FailedAt(i))
               IN  results[i] = <<staff_encodings[i][1], cmp.is_match, cmp.confidence>>

(* C4 witness: three known encodings of which only the second matches *)
C4_Witness ==
    /\ Done("batch_verify_faces") /\ OneFace(uploaded_photo)
    /\ Len(staff_encodings) = 3 /\ Len(results) = 3
    /\ staff_encodings[1][1] # staff_encodings[2][1]
    /\ CallsOf({"distance_raised"}) = {}
    /\ ~results[1][2] /\ results[2][2] /\ ~results[3][2]

RECURSIVE Pick(_, _, _)
(* the entries of seq at the positions of keep, from position i on *)
Pick(seq, keep, i) ==
    IF i > Len(seq) THEN << >>
    ELSE (IF i \in keep THEN <<seq[i]>> ELSE << >>) \o Pick(seq, keep, i + 1)

(* C5: in batch_verify_faces a comparison that fails gives                *)
(* <<staff_id, FALSE, 0.0>> for that staff id; every comparison is still  *)
(* made, and the other entries are those of a run without a failure over  *)
(* the list without the failing entries.                                  *)
C5_FailureIsolated ==
    (Done("batch_verify_faces") /\ uploaded_encoding # None) =>
        LET sound == {i \in 1..Len(staff_encodings) : ~FailedAt(i)}
            others == Pick(staff_encodings, sound, 1)
        IN  /\ Len(results) = Len(staff_encodings)
            /\ \A i \in 1..Len(staff_encodings) : ComparedAt(i)
            /\ \A i \in 1..Len(staff_encodings) :
                   FailedAt(i) => results[i] = <<staff_encodings[i][1], FALSE, 0>>
            /\ Pick(results, sound, 1) =
                   [k \in 1..Len(others) |->
                       <<others[k][1],
                         IsMatch(FaceDistance(others[k][2], uploaded_encoding),
                                 RECOGNITION_THRESHOLD),
                         Confidence(FaceDistance(others[k][2], uploaded_encoding))>>]

(* C5 witness: the second of three comparisons failed, the third matched *)
C5_Witness ==
    /\ Done("batch_verify_faces")
    /\ Len(staff_encodings) = 3 /\ Len(results) = 3
    /\ ~FailedAt(1) /\ FailedAt(2) /\ ~FailedAt(3)
    /\ results[2] = <<staff_encodings[2][1], FALSE, 0>>
    /\ results[3][2]

(* the image a library call of the running verify_face was made on *)
ImageOf(side) == IF side = "staff" THEN staff_photo_path ELSE uploaded_photo

(* a library call of the running call raised while locating, encoding or  *)
(* comparing                                                              *)
FaultSeen ==
    \/ \E j \in CallsOf({"locate"}) : ImageOf(trace[j].side).locate = "raise"
    \/ \E j \in CallsOf({"encode"}) : ImageOf(trace[j].side).encode = "raise"
    \/ CallsOf({"distance_raised"}) # {}

(* C6: a fault while locating, encoding or comparing ends verify_face as  *)
(* processing_error with a diagnostic that is not empty, never as matched *)
(* or not_matched.                                                        *)
C6_FaultIsProcessingError ==
    (Done("verify_face") /\ FaultSeen) =>
        /\ Decision(ret) = "processing_error"
        /\ ret.error_message # << >>

(* C7: compare_faces on encodings of different dimensionality signals an  *)
(* error to its caller instead of returning a result.                     *)
C7_MismatchSignalled ==
    (Done("compare_faces") /\ Len(staff_encoding) # Len(uploaded_encoding)) =>
        exception # "none"

(* C8: the confidence compare_faces returns is 1 - distance and lies in   *)
(* [0, 1], for every pair of encodings it computes a distance for.        *)
C8_ConfidenceInRange ==
    (Done("compare_faces") /\ CallsOf({"distance"}) # {}) =>
        /\ ret.confidence = 100 - trace[1].n
        /\ ret.confidence >= 0
        /\ ret.confidence <= 100

(* C9: is_match is monotone in the threshold: a pair that matches under   *)
(* a threshold matches under every greater threshold.                     *)
C9_MonotoneInThreshold ==
    (Done("compare_faces") /\ ret.is_match) =>
        \A t2 \in Thresholds :
            threshold <= t2 =>
                CompareFaces(staff_encoding, uploaded_encoding, t2, FALSE).is_match

(* C9 witness: a pair at a distance above zero matches under a threshold  *)
(* that is not the greatest                                               *)
C9_Witness ==
    /\ Done("compare_faces") /\ ret.is_match
    /\ trace[1].n > 0
    /\ \E t2 \in Thresholds : threshold < t2

(* C10: compare_faces of an encoding with itself has distance 0 and is a  *)
(* match under every threshold >= 0, threshold 0 included.                *)
C10_SelfMatch ==
    (Done("compare_faces") /\ staff_encoding = uploaded_encoding
        /\ CallsOf({"distance_raised"}) = {}) =>
        /\ trace[1] = Call("distance", "known", 0)
        /\ ret.is_match
        /\ ret.confidence = 100

(* C10 witness: an encoding compared with itself under threshold 0 *)
C10_Witness ==
    /\ Done("compare_faces") /\ staff_encoding = uploaded_encoding
    /\ threshold = 0
    /\ ret.is_match

(* the label verify_face puts before the error of a side *)
LabelOf(side) ==
    IF side = "staff" THEN "Staff photo error: " ELSE "Uploaded photo error: "

(* C11: when an image fails to load or decode in verify_face, the call    *)
(* returns (it does not raise) a processing_error whose diagnostic names  *)
(* the side that failed.                                                  *)
C11_LoadFailureNamesSide ==
    (Done("verify_face")
        /\ \E j \in CallsOf({"load"}) : ImageOf(trace[j].side).load = "fail") =>
        /\ Decision(ret) = "processing_error"
        /\ exception = "none"
        /\ trace[Len(trace)].stage = "load"
        /\ ret.error_message =
               <<LabelOf(trace[Len(trace)].side), "Error processing image: ",
                 "cannot identify image file">>

(* C11 witness: a reference with one face and a probe that cannot be      *)
(* decoded                                                                *)
C11_Witness ==
    /\ Done("verify_face") /\ available
    /\ OneFace(staff_photo_path) /\ staff_photo_path.faces = 1
    /\ uploaded_photo.load = "fail"
    /\ Head(ret.error_message) = "Uploaded photo error: "
    /\ Decision(ret) = "processing_error"

(* C12: verify_face and batch_verify_faces raise nothing, for every      *)
(* input; an image without a face and a pair that does not match are     *)
(* reported in what the call returns.                                    *)
C12_NoFaceAndNoMatchReturned ==
    /\ (Done("verify_face") \/ Done("batch_verify_faces")) => exception = "none"
    /\ (Done("verify_face") /\ available /\ ZeroFaces(staff_photo_path)) =>
           Decision(ret) = "no_face_reference"
    /\ (Done("verify_face") /\ available /\ OneFace(staff_photo_path)
            /\ ZeroFaces(uploaded_photo)) =>
           Decision(ret) = "no_face_probe"
    /\ (Done("verify_face") /\ trace # << >> /\ trace[Len(trace)].stage = "distance") =>
           LET distance == FaceDistance(staff_encoding, uploaded_encoding)
           IN  distance > RECOGNITION_THRESHOLD =>
                   /\ Decision(ret) = "not_matched"
                   /\ ret.confidence = 100 - distance
    /\ (Done("batch_verify_faces") /\ available /\ ZeroFaces(uploaded_photo)) =>
           Len(results) = Len(staff_encodings)

(* C12 witness: verify_face has returned not_matched for two faces that   *)
(* are too far apart                                                      *)
C12_Witness ==
    /\ Done("verify_face") /\ exception = "none"
    /\ OneFace(staff_photo_path) /\ OneFace(uploaded_photo)
    /\ trace # << >>
    /\ trace[Len(trace)].stage = "distance"
    /\ Decision(ret) = "not_matched"

(* verify_face has compared the encodings of two images of which at      *)
(* least one shows several faces                                          *)
AmbiguousCompared ==
    /\ Done("verify_face") /\ available
    /\ OneFace(staff_photo_path) /\ OneFace(uploaded_photo)
    /\ staff_photo_path.faces > 1 \/ uploaded_photo.faces > 1
    /\ trace # << >>
    /\ trace[Len(trace)].stage = "distance"

(* the first region's encoding was used on both sides and the call ended  *)
(* with the result of comparing them                                      *)
FirstFaceDecides ==
    /\ staff_encoding = RegionEncoding(staff_photo_path, 1)
    /\ uploaded_encoding = RegionEncoding(uploaded_photo, 1)
    /\ ret.is_match =
           (FaceDistance(RegionEncoding(staff_photo_path, 1),
                         RegionEncoding(uploaded_photo, 1)) <= RECOGNITION_THRESHOLD)

(* C13 as claimed: with several faces on a side the first region's        *)
(* encoding is used, the call goes on to matched / not_matched, and the   *)
(* diagnostic of the outcome is not empty.                                *)
C13_AmbiguityInDiagnostic ==
    AmbiguousCompared => (FirstFaceDecides /\ ret.error_message # << >>)

(* C13 as amended: with several faces on a side the first region's        *)
(* encoding is used, the call goes on to matched / not_matched, and the   *)
(* ambiguity is written to the log as a warning for that side; the        *)
(* diagnostic of the outcome is empty.                                    *)
C13_AmbiguityLogged ==
    AmbiguousCompared =>
        /\ FirstFaceDecides
        /\ Decision(ret) \in {"matched", "not_matched"}
        /\ ret.error_message = << >>
        /\ \A side \in {"staff", "uploaded"} :
               ImageOf(side).faces > 1 <=>
                   \E k \in DOMAIN logged :
                       logged[k] = [level |-> "warning", side |-> side,
                                    faces |-> ImageOf(side).faces]

(* C13 witness: a reference with two faces matched a probe with one *)
C13_Witness ==
    /\ AmbiguousCompared
    /\ staff_photo_path.faces = 2 /\ uploaded_photo.faces = 1
    /\ Decision(ret) = "matched"
    /\ Len(logged) = 1

(* the calls extract_face_encoding makes for one side *)
ExtractionCalls(side) ==
    {j \in CallsOf({"load", "locate", "encode"}) : trace[j].side = side}

(* the image cannot be read, or locating or encoding its faces fails *)
Unusable(image) ==
    \/ image.load = "fail"
    \/ image.locate = "raise"
    \/ image.faces >= 1 /\ image.encode # "ok"

(* C16 as claimed: both images are loaded before faces are located or     *)
(* encoded in either; a probe that fails to load gives processing_error   *)
(* even when the reference has no face; the reference is not encoded in   *)
(* a call that ends in no_face_probe.                                     *)
C16_LoadBothFirst ==
    (Done("verify_face") /\ available) =>
        /\ \A j \in CallsOf({"locate", "encode"}) :
               \A side \in {"staff", "uploaded"} :
                   \E i \in CallsOf({"load"}) : i < j /\ trace[i].side = side
        /\ (staff_photo_path.load = "ok" /\ uploaded_photo.load = "fail") =>
               Decision(ret) = "processing_error"
        /\ Decision(ret) = "no_face_probe" =>
               \A j \in CallsOf({"encode"}) : trace[j].side # "staff"

(* C16 as amended: verify_face is through with the reference (load,       *)
(* locate, encode) before it touches the probe.  Its terminal conditions  *)
(* come in the order: reference unusable, no reference face, probe        *)
(* unusable, no probe face, match decision; a probe that fails to load    *)
(* gives no_face_reference when the reference has no face, and the        *)
(* reference has been encoded in a call that ends in no_face_probe.       *)
C16_ReferenceThenProbe ==
    (Done("verify_face") /\ available) =>
        /\ \A i \in ExtractionCalls("uploaded") :
               /\ \A j \in ExtractionCalls("staff") : j < i
               /\ \E j \in ExtractionCalls("staff") : trace[j].stage = "encode"
        /\ Decision(ret) =
               IF Unusable(staff_photo_path) THEN "processing_error"
               ELSE IF ZeroFaces(staff_photo_path) THEN "no_face_reference"
               ELSE IF Unusable(uploaded_photo) THEN "processing_error"
               ELSE IF ZeroFaces(uploaded_photo) THEN "no_face_probe"
               ELSE IF ret.is_match THEN "matched" ELSE "not_matched"
        /\ Decision(ret) = "processing_error" =>
               Head(ret.error_message) =
                   LabelOf(IF Unusable(staff_photo_path) THEN "staff" ELSE "uploaded")
        /\ Decision(ret) = "no_face_probe" =>
               \E j \in CallsOf({"encode"}) : trace[j].side = "staff"

(* C16 witness: the reference has no face and the probe cannot be loaded; *)
(* the call ended as no_face_reference without loading the probe          *)
C16_Witness ==
    /\ Done("verify_face") /\ available
    /\ ZeroFaces(staff_photo_path) /\ uploaded_photo.load = "fail"
    /\ Decision(ret) = "no_face_reference"
    /\ ExtractionCalls("uploaded") = {}

(* two successive loads of one source object have been made *)
LoadedTwice ==
    /\ pc = "done"
    /\ op \in {"get_face_locations", "extract_face_encoding"}
    /\ Len(returned) = 2

(* C17 as claimed: a load leaves its source as it found it, so the second *)
(* of two successive loads of one source object, with no reset between    *)
(* them, returns what the first returned.                                 *)
C17_LoadLeavesSource ==
    LoadedTwice => (~stream.at_end /\ returned[2] = returned[1])

(* what does hold: a path is loaded anew each time; an uploaded file that *)
(* has been read stays at its end, and every later load of it fails       *)
C17_SecondLoadOfUploadFails ==
    LoadedTwice =>
        /\ ~stream.in_memory => (~stream.at_end /\ returned[2] = returned[1])
        /\ (stream.in_memory /\ available) =>
               /\ stream.at_end
               /\ returned[2] =
                      IF op = "get_face_locations" THEN << >>
                      ELSE <<None, ErrorProcessing("cannot identify image file")>>

(* an uploaded photo with one face: located by the first call, not by the *)
(* second                                                                 *)
C17_Witness ==
    /\ LoadedTwice /\ available /\ stream.in_memory
    /\ op = "get_face_locations"
    /\ Len(returned[1]) = 1 /\ returned[2] = << >>

(* the view has answered a request that reached verify_face *)
Responded ==
    /\ Idle /\ request.rejected = "accepted" /\ response # NoResponse

(* C15 as claimed: a request that reached the pipeline is answered with a *)
(* 200-class status when the outcome is a business outcome and with a     *)
(* 5xx-class status when it is processing_error.                          *)
C15_StatusClassByOutcome ==
    Responded =>
        /\ Decision(ret) \in {"matched", "not_matched", "no_face_reference",
                              "no_face_probe"} =>
               response.status_code \in 200..299
        /\ Decision(ret) = "processing_error" =>
               response.status_code \in 500..599

(* what the view does answer: 422 for every outcome with a diagnostic,    *)
(* 500 for a computed non-match, 200 otherwise                            *)
C15_StatusCodes ==
    Responded =>
        response.status_code =
            IF ret.error_message # << >> THEN 422
            ELSE IF ret.is_match THEN 200
            ELSE IF NumpyBool THEN 500 ELSE 200

C15_Witness ==
    /\ Responded
    /\ Decision(ret) = "no_face_probe" /\ response.status_code = 422

(* verify_face has been called for the request and its attempt is not yet *)
(* recorded                                                               *)
InVerifyFace ==
    pc \in {"verify_staff", "verify_uploaded", "verify_compare", "done"}

(* C18: one VerificationAttempt per request that reached verify_face and  *)
(* none for a request rejected before it; the status of a record is one   *)
(* of success/failed/error/no_face, and it is 'success' exactly when the  *)
(* response reports success true.                                         *)
C18_OneRecordPerVerification ==
    /\ [](/\ Len(records) = IF InVerifyFace THEN reached - 1 ELSE reached
          /\ \A k \in DOMAIN records :
                 records[k].status \in {"success", "failed", "error", "no_face"}
          /\ Responded =>
                 (records[Len(records)].status = "success" <=> response.success))
    /\ [][/\ request'.rejected \notin {"accepted", "none"} => records' = records
          /\ records' # records =>
                 /\ request.rejected = "accepted"
                 /\ Len(records') = Len(records) + 1
                 /\ SubSeq(records', 1, Len(records)) = records]_vars

(* C18 witness: a rejected request after two verified ones, the first     *)
(* recorded as success and the second as no_face                          *)
C18_Witness ==
    /\ Idle /\ reached = 2 /\ Len(records) = 2
    /\ records[1].status = "success" /\ records[2].status = "no_face"
    /\ request.rejected = "STAFF_NOT_FOUND"
    /\ response.status_code = 404

(* what verify_face returns for these inputs when nothing else runs *)
VerifyFaceAlone(staff, probe, st, avail) ==
    LET s == ExtractFaceEncoding(staff, "staff", avail)
        u == ExtractFaceEncoding(Read(probe, st), "uploaded", avail)
        cmp == CompareFaces(s.encoding, u.encoding, RECOGNITION_THRESHOLD, FALSE)
    IN  IF s.encoding = None THEN VerifyResult(FALSE, 0, StaffPhotoError(s.error))
        ELSE IF u.encoding = None
        THEN VerifyResult(FALSE, 0, UploadedPhotoError(u.error))
        ELSE VerifyResult(cmp.is_match, cmp.confidence, << >>)

(* what batch_verify_faces returns for these inputs when nothing else runs *)
BatchVerifyFacesAlone(probe, encodings, st, avail) ==
    LET u == ExtractFaceEncoding(Read(probe, st), "uploaded", avail)
    IN  [i \in 1..Len(encodings) |->
            LET cmp == CompareFaces(encodings[i][2], u.encoding,
                                    RECOGNITION_THRESHOLD, FALSE)
            IN  IF u.encoding = None THEN <<encodings[i][1], FALSE, 0>>
                ELSE <<encodings[i][1], cmp.is_match, cmp.confidence>>]

(* the call of worker w is over with the result it has alone *)
ReturnsAsAlone(w) ==
    LET me == workers[w]
    IN  /\ me.op = "verify_face" =>
               me.ret = VerifyFaceAlone(me.staff_photo_path, me.uploaded_photo,
                                        FreshUpload, available)
        /\ me.op = "batch_verify_faces" =>
               me.results = BatchVerifyFacesAlone(me.uploaded_photo, me.staff_encodings,
                                                  FreshUpload, available)

(* C14: whatever the interleaving, a finished call has the outcome it has *)
(* when run alone on its inputs; a step of one call leaves the locals of  *)
(* every other call alone; and the configuration the calls share,         *)
(* encoding_model, keeps the value __init__ gave it.                      *)
C14_CallsIndependent ==
    /\ [](\A w \in Workers :
              /\ workers[w].pc = "done" => ReturnsAsAlone(w)
              /\ workers[w].model \in {None, encoding_model})
    /\ [][/\ encoding_model' = encoding_model
          /\ available' = available
          /\ \A w \in Workers :
                 workers'[w] # workers[w] =>
                     \A v \in Workers \ {w} : workers'[v] = workers[v]]_vars

(* C14 witness: a verify_face and a batch_verify_faces, begun before      *)
(* either was over, have both ended, in a match and in a list of two      *)
C14_Witness ==
    /\ workers["w1"].pc = "done" /\ workers["w1"].op = "verify_face"
    /\ workers["w1"].ret.is_match
    /\ workers["w2"].pc = "done" /\ workers["w2"].op = "batch_verify_faces"
    /\ Len(workers["w2"].results) = 2

====
